---- MODULE Spec2Model ----
(***************************************************************************)
(* NFT transfer service of the wallet core                                 *)
(* (packages/core/src/service/transfer/nftService.ts).                     *)
(*                                                                         *)
(* Two specifications:                                                     *)
(*   Spec     the six entry points (estimate / send of NFT transfer,       *)
(*            record renew, record link) run as concurrent asynchronous    *)
(*            calls; one action per resumption of a call after an await.   *)
(*   SpecEnc  the operation encoders applied as pure functions to inputs   *)
(*            drawn in the initial state.                                  *)
(***************************************************************************)
EXTENDS Integers, Sequences, FiniteSets

\* ------------------------------------------------------------------ bounds

\* Fee estimates (fee.event.extra) lie MaxFee below zero, at zero, MaxFee
\* above zero, at min and MaxFee above min.
MaxFee == 1
\* Sequence numbers the account query may report: 0..MaxSeqno.
MaxSeqno == 1
\* Date.now() is read as a value of 1..MaxNow.
MaxNow == 1
\* Caller-supplied query ids range over 0..MaxQueryId.
MaxQueryId == 3
\* The amount the caller supplies to the renew and link entry points.
RecordAmount == 2

\* --------------------------------------------------------------- constants

\* toNano('1')
initNftTransferAmount == 1000000000
\* BigInt('1')
nftTransferForwardAmount == 1
\* toNano('0.05')
min == 50000000

\* Two calls in flight at once: two is what a race between calls takes, and the
\* calls share no variable.
Calls == {"call1", "call2"}
\* A charge, none, a refund below min, a refund of min (the netting gives
\* 0) and a refund above min (the netting gives less than 0).
FeeExtras == {0 - MaxFee, 0, MaxFee, min, min + MaxFee}
Seqnos == 0..MaxSeqno
Times == 1..MaxNow
Amounts == {RecordAmount}
\* The fee estimates handed to sendNftRenew and sendNftLink: a charge, or none.
RecordFeeExtras == {0 - MaxFee, 0}
Balances == {0, 1, min + MaxFee, min + 2 * MaxFee}

None == <<>>
Some(x) == <<x>>
Last(s) == s[Len(s)]

\* ----------------------------------------------------------------- Address

\* Raw address strings known to the model; every other string is malformed.
walletRawAddress == "0:wallet"
recipientRawAddress == "0:recipient"
nftItemAddress == "0:nft"
linkTarget == "0:link"
malformedAddress == "not-an-address"

\* Address.parse: the (workchain, hash) pair of a well-formed string, None
\* where the library throws.
AddressParse(s) ==
    CASE s = walletRawAddress -> Some([workChain |-> 0, hash |-> 1])
      [] s = recipientRawAddress -> Some([workChain |-> 0, hash |-> 2])
      [] s = nftItemAddress -> Some([workChain |-> 0, hash |-> 3])
      [] s = linkTarget -> Some([workChain |-> 0, hash |-> 4])
      [] OTHER -> None

\* ------------------------------------------------------------ Cell builder
\* A builder is [bits, refs]: bits is the sequence of fields written, each
\* [w |-> bit width, v |-> value as a tuple of numbers]; refs the child cells.

beginCell == [bits |-> <<>>, refs |-> <<>>]

\* storeUint(value, bits) of a number that fits one machine word.
storeUint(b, value, w) == [b EXCEPT !.bits = Append(@, [w |-> w, v |-> <<value>>])]

\* storeUint(BigInt('0x...'), bits): the value as its 16-bit words, high first.
storeUintWords(b, words, w) == [b EXCEPT !.bits = Append(@, [w |-> w, v |-> words])]

\* storeAddress: 2-bit tag, anycast bit, 8-bit workchain, 256-bit hash.
storeAddress(b, a) ==
    [b EXCEPT !.bits = Append(@, [w |-> 267, v |-> <<a.workChain, a.hash>>])]

storeBit(b, bit) ==
    [b EXCEPT !.bits = Append(@, [w |-> 1, v |-> <<IF bit THEN 1 ELSE 0>>])]

RECURSIVE ByteLen(_)
ByteLen(n) == IF n = 0 THEN 0 ELSE 1 + ByteLen(n \div 256)

\* storeCoins: 4-bit byte count, then the amount in that many bytes.
storeCoins(b, amount) ==
    [b EXCEPT !.bits = Append(@, [w |-> 4 + 8 * ByteLen(amount), v |-> <<amount>>])]

storeRef(b, c) == [b EXCEPT !.refs = Append(@, c)]

\* storeMaybeRef: one presence bit, then the ref when the cell is not null.
storeMaybeRef(b, c) ==
    IF c = None THEN storeBit(b, FALSE) ELSE storeRef(storeBit(b, TRUE), c[1])

endCell(b) == b

\* A text is the sequence of its UTF-8 bytes; "gift" is the one the calls use.
giftText == <<103, 105, 102, 116>>

\* storeBuffer: the bytes, 8 bits each.
storeBuffer(b, bytes) ==
    [b EXCEPT !.bits = Append(@, [w |-> 8 * Len(bytes), v |-> bytes])]

RECURSIVE UsedBits(_)
UsedBits(fields) ==
    IF fields = <<>> THEN 0 ELSE fields[1].w + UsedBits(SubSeq(fields, 2, Len(fields)))

\* builder.availableBits: a cell holds 1023 bits.
availableBits(b) == 1023 - UsedBits(b.bits)

\* storeStringTail: nothing for an empty text; the bytes that fit the cell,
\* and the rest in a chain of child cells.
RECURSIVE writeBuffer(_, _)
writeBuffer(src, b) ==
    IF Len(src) = 0 THEN b
    ELSE LET bytes == availableBits(b) \div 8
         IN IF Len(src) > bytes
            THEN storeRef(storeBuffer(b, SubSeq(src, 1, bytes)),
                          endCell(writeBuffer(SubSeq(src, bytes + 1, Len(src)), beginCell)))
            ELSE storeBuffer(b, src)

\* comment(text): a cell holding a 32-bit zero tag and the bytes of the text.
comment(text) == endCell(writeBuffer(text, storeUint(beginCell, 0, 32)))

\* ------------------------------------------------------ Operation encoders

transferOp == 1607220500
changeDnsRecordOp == 1320284409
dnsAddressMarker == 40915

\* 0xe8d44050873dba865aa7c170ab4cce64d90839a34dcfd6cf71d14e0205443b1b
DNS_CATEGORY_WALLET ==
    <<59604, 16464, 34621, 47750, 23207, 49520, 43852, 52836,
      55560, 14755, 19919, 54991, 29137, 19970, 1348, 15131>>

\* `queryId || 0` of an optional number: undefined and 0 both give 0.
QueryIdOrZero(queryId) ==
    IF queryId = None \/ queryId[1] = 0 THEN 0 ELSE queryId[1]

\* Variant of nftTransferBody that ignores params.queryId and writes 0.
nftTransferBody_dropsQueryId(params) ==
    endCell(storeMaybeRef(storeCoins(storeBit(storeAddress(storeAddress(
        storeUint(storeUint(beginCell, transferOp, 32), 0, 64),
        params.newOwnerAddress), params.responseAddress), FALSE),
        params.forwardAmount), params.forwardPayload))

nftTransferBody(params) ==
    endCell(storeMaybeRef(storeCoins(storeBit(storeAddress(storeAddress(
        storeUint(storeUint(beginCell, transferOp, 32),
                  QueryIdOrZero(params.queryId), 64),
        params.newOwnerAddress), params.responseAddress), FALSE),
        params.forwardAmount), params.forwardPayload))

\* params is optional: None, or Some of a record with an optional queryId.
nftRenewBody(params) ==
    endCell(storeUint(storeUint(storeUint(beginCell, changeDnsRecordOp, 32),
        QueryIdOrZero(IF params = None THEN None ELSE params[1].queryId), 64),
        0, 256))

\* The unfinished builder of the tagged address; None where Address.parse throws.
addressToDNSAddressFormat(address) ==
    IF AddressParse(address) = None THEN None
    ELSE Some(storeUint(storeAddress(storeUint(beginCell, dnsAddressMarker, 16),
                                     AddressParse(address)[1]), 0, 8))

\* Variant of nftLinkBody without the `if (params.linkToAddress)` guard.
nftLinkBody_alwaysRef(params) ==
    LET head == storeUintWords(storeUint(storeUint(beginCell, changeDnsRecordOp, 32),
                    QueryIdOrZero(params.queryId), 64), DNS_CATEGORY_WALLET, 256)
        sub == addressToDNSAddressFormat(
                   IF params.linkToAddress = "" THEN walletRawAddress
                   ELSE params.linkToAddress)
    IN IF sub = None THEN None ELSE Some(endCell(storeRef(head, sub[1])))

\* Some(cell), or None where the address of a non-empty linkToAddress does
\* not parse and the encoder throws.
nftLinkBody(params) ==
    LET head == storeUintWords(storeUint(storeUint(beginCell, changeDnsRecordOp, 32),
                    QueryIdOrZero(params.queryId), 64), DNS_CATEGORY_WALLET, 256)
    IN IF params.linkToAddress # ""
       THEN LET sub == addressToDNSAddressFormat(params.linkToAddress)
            IN IF sub = None THEN None ELSE Some(endCell(storeRef(head, sub[1])))
       ELSE Some(endCell(head))

\* ------------------------------------------------- collaborators (common)

\* Buffer.alloc(n): n zero bytes.
BufferAlloc(n) == [i \in 1..n |-> 0]

\* The mnemonic the secret store holds for the wallet, and its passphrase.
storedMnemonic == 7
Passwords == {"right", "wrong"}

\* getWalletMnemonic: the stored mnemonic, None where it throws WrongPassword.
getWalletMnemonic(password) ==
    IF password = "right" THEN Some(storedMnemonic) ELSE None

\* mnemonicToPrivateKey: a 64-byte secret key determined by the mnemonic.
mnemonicToPrivateKey(mnemonic) ==
    [publicKey |-> [i \in 1..32 |-> mnemonic],
     secretKey |-> [i \in 1..64 |-> mnemonic]]

\* createTransferMessage: the external message of the wallet contract for
\* one internal transfer, signed with secretKey.
createTransferMessage(wallet, transaction) ==
    [seqno |-> wallet.seqno,
     from |-> wallet.state,
     secretKey |-> wallet.secretKey,
     to |-> transaction.to,
     value |-> transaction.value,
     body |-> transaction.body]

\* cell.toString('base64') of the serialized message.
toBase64(message) == [encoding |-> "base64", boc |-> message]

\* checkWalletBalanceOrDie throws exactly when total exceeds the balance.
checkWalletBalanceOrDie(t, balance) == t > balance

\* checkWalletPositiveBalanceOrDie throws exactly when the balance is <= 0.
checkWalletPositiveBalanceOrDie(balance) == balance <= 0

\* ------------------------------------------------------- createNftTransfer

\* now is the value Date.now() returns; secretKey is passed explicitly, the
\* callers that omit it pass the default Buffer.alloc(64).
createNftTransfer(sq, recipientAddress, nftAddress, nftTransferAmount, forwardPayload, secretKey, now) ==
    createTransferMessage(
        [seqno |-> sq, state |-> walletRawAddress, secretKey |-> secretKey],
        [to |-> nftAddress, value |-> nftTransferAmount,
         body |-> nftTransferBody(
             [queryId |-> Some(now),
              newOwnerAddress |-> AddressParse(recipientAddress)[1],
              responseAddress |-> AddressParse(walletRawAddress)[1],
              forwardAmount |-> nftTransferForwardAmount,
              forwardPayload |-> forwardPayload])])

\* recipient.comment ? comment(recipient.comment) : null
ForwardPayload(text) == IF text # <<>> THEN Some(comment(text)) ELSE None

\* ---------------------------------------------------------- amount netting

\* Variant of NftTransferAmount that raises to min only an amount below 0.
NftTransferAmount_clampBelowZero(minimum, extra) ==
    LET a == (extra * (0 - 1)) + minimum
    IN IF a < 0 THEN minimum ELSE a

\* Variant of NftTransferAmount without the raise to min.
NftTransferAmount_noClamp(minimum, extra) == (extra * (0 - 1)) + minimum

\* new BigNumber(extra).multipliedBy(-1).plus(min), raised to min when less.
NftTransferAmount(minimum, extra) ==
    LET a == (extra * (0 - 1)) + minimum
    IN IF a < minimum THEN minimum ELSE a

\* Variant of Total that leaves the fee out.
Total_amountOnly(amount, extra) == amount

\* nftTransferAmount.plus(fee.event.extra * -1)
Total(amount, extra) == amount + (extra * (0 - 1))

\* ------------------------------------------------------------------- state

VARIABLES
    op,                \* the entry point each call runs ("" before it is invoked)
    pc,                \* the await each call is suspended at
    args,              \* the arguments of each call
    mnemonic,          \* local: result of getWalletMnemonic
    keyPair,           \* local: result of mnemonicToPrivateKey
    nftTransferAmount, \* local of sendNftTransfer
    total,             \* local of sendNftTransfer / getKeyPairAndSeqno
    wallet,            \* local: balance of the fetched account
    seqno,             \* local: the fetched seqno
    cell,              \* local: the assembled message
    result,            \* what each call returned or threw
    trace,             \* the steps each call has executed, in order
    broadcast,         \* requests each call made to sendBlockchainMessage / sendBoc
    emulated,          \* requests each call made to emulateMessageToWallet
    encIn,             \* SpecEnc: the encoder and its parameters
    encOut             \* SpecEnc: what the encoder produced

callVars == <<op, pc, args, mnemonic, keyPair, nftTransferAmount, total, wallet,
              seqno, cell, result, trace, broadcast, emulated>>
vars == <<op, pc, args, mnemonic, keyPair, nftTransferAmount, total, wallet,
          seqno, cell, result, trace, broadcast, emulated, encIn, encOut>>

EstimateOps == {"estimateNftTransfer", "estimateNftRenew", "estimateNftLink"}
SendOps == {"sendNftTransfer", "sendNftRenew", "sendNftLink"}
KeyPairAndSeqnoOps == {"sendNftRenew", "sendNftLink"}

Pending == [kind |-> "pending", error |-> "", boc |-> None, emulation |-> None]
Thrown(e) == [kind |-> "thrown", error |-> e, boc |-> None, emulation |-> None]
Returned == [kind |-> "returned", error |-> "", boc |-> None, emulation |-> None]

NoArgs == [feeExtra |-> 0, password |-> "", comment |-> <<>>, amount |-> 0,
           linkToAddress |-> ""]

\* The arguments each entry point takes; those it does not take stay at NoArgs.
ArgsOf(o) ==
    CASE o = "estimateNftTransfer" ->
           {[NoArgs EXCEPT !.comment = t] : t \in {<<>>, giftText}}
      [] o = "sendNftTransfer" ->
           {[NoArgs EXCEPT !.comment = t, !.feeExtra = f, !.password = p] :
               t \in {<<>>, giftText}, f \in FeeExtras, p \in Passwords}
      [] o = "sendNftRenew" ->
           {[NoArgs EXCEPT !.amount = a, !.feeExtra = f, !.password = p] :
               a \in Amounts, f \in RecordFeeExtras, p \in Passwords}
      [] o = "estimateNftRenew" ->
           {[NoArgs EXCEPT !.amount = a] : a \in Amounts}
      [] o = "sendNftLink" ->
           {[NoArgs EXCEPT !.amount = a, !.feeExtra = f, !.password = p,
                           !.linkToAddress = l] :
               a \in Amounts, f \in RecordFeeExtras, p \in Passwords,
               l \in {"", linkTarget, malformedAddress}}
      [] o = "estimateNftLink" ->
           {[NoArgs EXCEPT !.amount = a, !.linkToAddress = l] :
               a \in Amounts, l \in {"", linkTarget, malformedAddress}}

NoEnc == [fn |-> "", queryId |-> None, linkToAddress |-> "", forwardPayload |-> None,
          now |-> 0]

Init ==
    /\ op = [c \in Calls |-> ""]
    /\ pc = [c \in Calls |-> "idle"]
    /\ args = [c \in Calls |-> NoArgs]
    /\ mnemonic = [c \in Calls |-> None]
    /\ keyPair = [c \in Calls |-> None]
    /\ nftTransferAmount = [c \in Calls |-> None]
    /\ total = [c \in Calls |-> None]
    /\ wallet = [c \in Calls |-> None]
    /\ seqno = [c \in Calls |-> None]
    /\ cell = [c \in Calls |-> None]
    /\ result = [c \in Calls |-> Pending]
    /\ trace = [c \in Calls |-> <<>>]
    /\ broadcast = [c \in Calls |-> <<>>]
    /\ emulated = [c \in Calls |-> <<>>]
    /\ encIn = NoEnc
    /\ encOut = None

\* A step of call c: it moves to await `next`, having run `steps`.
Goto(c, next, steps) ==
    /\ pc' = [pc EXCEPT ![c] = next]
    /\ trace' = [trace EXCEPT ![c] = @ \o steps]

\* Call c throws e from its step `steps`: the error surfaces to the caller.
Throw(c, e, steps) ==
    /\ Goto(c, "done", steps)
    /\ result' = [result EXCEPT ![c] = Thrown(e)]

\* The caller invokes an entry point.
Invoke(c) ==
    /\ pc[c] = "idle"
    /\ \E o \in EstimateOps \cup SendOps : \E a \in ArgsOf(o) :
         /\ op' = [op EXCEPT ![c] = o]
         /\ args' = [args EXCEPT ![c] = a]
    /\ pc' = [pc EXCEPT ![c] = "checkServiceTimeOrDie"]
    /\ UNCHANGED <<mnemonic, keyPair, nftTransferAmount, total, wallet, seqno, cell,
                   result, trace, broadcast, emulated, encIn, encOut>>

\* await checkServiceTimeOrDie(...): first statement of sendNftTransfer, of
\* the three estimate entry points and of getKeyPairAndSeqno.
CheckServiceTimeOrDie(c) ==
    /\ pc[c] = "checkServiceTimeOrDie"
    /\ \/ /\ Goto(c, IF op[c] \in EstimateOps THEN "getWalletBalance"
                     ELSE "getWalletMnemonic", <<"checkServiceTimeOrDie">>)
          /\ UNCHANGED result
       \/ Throw(c, "ServiceUnavailable", <<"checkServiceTimeOrDie">>)
    /\ UNCHANGED <<op, args, mnemonic, keyPair, nftTransferAmount, total, wallet,
                   seqno, cell, broadcast, emulated, encIn, encOut>>

\* --------------------------------------------------------- sendNftTransfer

\* const mnemonic = await getWalletMnemonic(storage, publicKey, password)
SendNftTransfer_getWalletMnemonic(c) ==
    /\ pc[c] = "getWalletMnemonic" /\ op[c] = "sendNftTransfer"
    /\ IF getWalletMnemonic(args[c].password) = None
       THEN /\ Throw(c, "WrongPassword", <<"getWalletMnemonic">>)
            /\ UNCHANGED mnemonic
       ELSE /\ mnemonic' = [mnemonic EXCEPT ![c] = getWalletMnemonic(args[c].password)]
            /\ Goto(c, "mnemonicToPrivateKey", <<"getWalletMnemonic">>)
            /\ UNCHANGED result
    /\ UNCHANGED <<op, args, keyPair, nftTransferAmount, total, wallet, seqno, cell,
                   broadcast, emulated, encIn, encOut>>

\* const keyPair = await mnemonicToPrivateKey(mnemonic), then the netting of
\* the fee against min and the guard on the netted amount, up to the next await.
SendNftTransfer_mnemonicToPrivateKey(c) ==
    /\ pc[c] = "mnemonicToPrivateKey" /\ op[c] = "sendNftTransfer"
    /\ keyPair' = [keyPair EXCEPT ![c] = Some(mnemonicToPrivateKey(mnemonic[c][1]))]
    /\ LET amount == NftTransferAmount(min, args[c].feeExtra)
       IN /\ nftTransferAmount' = [nftTransferAmount EXCEPT ![c] = Some(amount)]
          /\ total' = [total EXCEPT ![c] = Some(Total(amount, args[c].feeExtra))]
          /\ IF amount <= 0
             THEN Throw(c, "InvalidAmount", <<"mnemonicToPrivateKey", "nftTransferAmount">>)
             ELSE /\ Goto(c, "getWalletBalance", <<"mnemonicToPrivateKey", "nftTransferAmount">>)
                  /\ UNCHANGED result
    /\ UNCHANGED <<op, args, mnemonic, wallet, seqno, cell, broadcast, emulated,
                   encIn, encOut>>

\* Variant of SendNftTransfer_cell that omits the key argument, so that
\* createNftTransfer falls back to Buffer.alloc(64).
SendNftTransfer_cell_defaultKey(c, sq, now) ==
    createNftTransfer(sq, recipientRawAddress, nftItemAddress, nftTransferAmount[c][1],
                      ForwardPayload(args[c].comment), BufferAlloc(64), now)

\* Variant of SendNftTransfer_cell that signs with a seqno another call fetched.
SendNftTransfer_cell_cachedSeqno(c, sq, now) ==
    createNftTransfer(
        IF \E d \in Calls \ {c} : seqno[d] # None
        THEN seqno[CHOOSE d \in Calls \ {c} : seqno[d] # None][1] ELSE sq,
        recipientRawAddress, nftItemAddress, nftTransferAmount[c][1],
        ForwardPayload(args[c].comment), keyPair[c][1].secretKey, now)

\* const cell = createNftTransfer(seqno, walletState, recipient, nftItem.address,
\*     BigInt(nftTransferAmount), comment or null, keyPair.secretKey)
SendNftTransfer_cell(c, sq, now) ==
    createNftTransfer(sq, recipientRawAddress, nftItemAddress, nftTransferAmount[c][1],
                      ForwardPayload(args[c].comment), keyPair[c][1].secretKey, now)

\* checkWalletBalanceOrDie(total, wallet) throws
SendNftTransfer_checkFails(c, b) == checkWalletBalanceOrDie(total[c][1], b)

\* const [wallet, seqno] = await getWalletBalance(...), then the sufficiency
\* check, the assembly of the message and the request to the broadcast endpoint.
SendNftTransfer_getWalletBalance(c) ==
    /\ pc[c] = "getWalletBalance" /\ op[c] = "sendNftTransfer"
    /\ \/ /\ Throw(c, "AccountQueryFailed", <<"getWalletBalance">>)
          /\ UNCHANGED <<wallet, seqno, cell, broadcast>>
       \/ \E b \in Balances, sq \in Seqnos :
            /\ wallet' = [wallet EXCEPT ![c] = Some(b)]
            /\ seqno' = [seqno EXCEPT ![c] = Some(sq)]
            /\ IF SendNftTransfer_checkFails(c, b)
               THEN /\ Throw(c, "InsufficientBalance",
                             <<"getWalletBalance", "checkWalletBalanceOrDie">>)
                    /\ UNCHANGED <<cell, broadcast>>
               ELSE \E now \in Times :
                    /\ cell' = [cell EXCEPT ![c] = Some(SendNftTransfer_cell(c, sq, now))]
                    /\ broadcast' = [broadcast EXCEPT ![c] = Append(@,
                           [endpoint |-> "sendBlockchainMessage",
                            request |-> toBase64(SendNftTransfer_cell(c, sq, now))])]
                    /\ Goto(c, "sendBlockchainMessage",
                            <<"getWalletBalance", "checkWalletBalanceOrDie",
                              "createNftTransfer", "sendBlockchainMessage">>)
                    /\ UNCHANGED result
    /\ UNCHANGED <<op, args, mnemonic, keyPair, nftTransferAmount, total, emulated,
                   encIn, encOut>>

\* Variant of SendNftTransfer_sendBlockchainMessage that submits again on rejection.
SendNftTransfer_sendBlockchainMessage_retry(c) ==
    /\ pc[c] = "sendBlockchainMessage" /\ op[c] = "sendNftTransfer"
    /\ \/ /\ Goto(c, "done", <<>>)
          /\ result' = [result EXCEPT ![c] = Returned]
          /\ UNCHANGED broadcast
       \/ /\ Len(broadcast[c]) < 2
          /\ broadcast' = [broadcast EXCEPT ![c] = Append(@, Last(@))]
          /\ UNCHANGED <<pc, trace, result>>
    /\ UNCHANGED <<op, args, mnemonic, keyPair, nftTransferAmount, total, wallet,
                   seqno, cell, emulated, encIn, encOut>>

\* The broadcast endpoint answers: the call returns, or the rejection surfaces.
SendNftTransfer_sendBlockchainMessage(c) ==
    /\ pc[c] = "sendBlockchainMessage" /\ op[c] = "sendNftTransfer"
    /\ \/ /\ Goto(c, "done", <<>>)
          /\ result' = [result EXCEPT ![c] = Returned]
       \/ Throw(c, "RemoteRejection", <<>>)
    /\ UNCHANGED <<op, args, mnemonic, keyPair, nftTransferAmount, total, wallet,
                   seqno, cell, broadcast, emulated, encIn, encOut>>

\* ----------------------------------------------------- estimateNftTransfer

\* Variant of EstimateNftTransfer_checkFails using the sufficiency check.
EstimateNftTransfer_checkFails_strict(b) ==
    checkWalletBalanceOrDie(initNftTransferAmount, b)

\* checkWalletPositiveBalanceOrDie(wallet) throws
EstimateNftTransfer_checkFails(b) == checkWalletPositiveBalanceOrDie(b)

\* const [wallet, seqno] = await getWalletBalance(...), then the positive
\* balance check, the assembly with the default key and the emulation request.
EstimateNftTransfer_getWalletBalance(c) ==
    /\ pc[c] = "getWalletBalance" /\ op[c] = "estimateNftTransfer"
    /\ \/ /\ Throw(c, "AccountQueryFailed", <<"getWalletBalance">>)
          /\ UNCHANGED <<wallet, seqno, cell, emulated>>
       \/ \E b \in Balances, sq \in Seqnos :
            /\ wallet' = [wallet EXCEPT ![c] = Some(b)]
            /\ seqno' = [seqno EXCEPT ![c] = Some(sq)]
            /\ IF EstimateNftTransfer_checkFails(b)
               THEN /\ Throw(c, "EmptyBalance",
                             <<"getWalletBalance", "checkWalletPositiveBalanceOrDie">>)
                    /\ UNCHANGED <<cell, emulated>>
               ELSE \E now \in Times :
                    LET m == createNftTransfer(sq, recipientRawAddress, nftItemAddress,
                                 initNftTransferAmount, ForwardPayload(args[c].comment),
                                 BufferAlloc(64), now)
                    IN /\ cell' = [cell EXCEPT ![c] = Some(m)]
                       /\ emulated' = [emulated EXCEPT ![c] = Append(@,
                              [endpoint |-> "emulateMessageToWallet",
                               request |-> toBase64(m)])]
                       /\ Goto(c, "emulateMessageToWallet",
                               <<"getWalletBalance", "checkWalletPositiveBalanceOrDie",
                                 "createNftTransfer", "emulateMessageToWallet">>)
                       /\ UNCHANGED result
    /\ UNCHANGED <<op, args, mnemonic, keyPair, nftTransferAmount, total, broadcast,
                   encIn, encOut>>

\* The emulation endpoint answers: its report is returned, or its error surfaces.
EstimateNftTransfer_emulateMessageToWallet(c) ==
    /\ pc[c] = "emulateMessageToWallet" /\ op[c] = "estimateNftTransfer"
    /\ \/ \E e \in FeeExtras :
            /\ Goto(c, "done", <<>>)
            /\ result' = [result EXCEPT ![c] = [Returned EXCEPT !.emulation = Some(e)]]
       \/ Throw(c, "RemoteRejection", <<>>)
    /\ UNCHANGED <<op, args, mnemonic, keyPair, nftTransferAmount, total, wallet,
                   seqno, cell, broadcast, emulated, encIn, encOut>>

\* ------------------------------------------------------ getKeyPairAndSeqno
\* The helper sendNftRenew and sendNftLink await first: service-time check,
\* secret retrieval, key derivation, account fetch, sufficiency check.

GetKeyPairAndSeqno_getWalletMnemonic(c) ==
    /\ pc[c] = "getWalletMnemonic" /\ op[c] \in KeyPairAndSeqnoOps
    /\ IF getWalletMnemonic(args[c].password) = None
       THEN /\ Throw(c, "WrongPassword", <<"getWalletMnemonic">>)
            /\ UNCHANGED mnemonic
       ELSE /\ mnemonic' = [mnemonic EXCEPT ![c] = getWalletMnemonic(args[c].password)]
            /\ Goto(c, "mnemonicToPrivateKey", <<"getWalletMnemonic">>)
            /\ UNCHANGED result
    /\ UNCHANGED <<op, args, keyPair, nftTransferAmount, total, wallet, seqno, cell,
                   broadcast, emulated, encIn, encOut>>

GetKeyPairAndSeqno_mnemonicToPrivateKey(c) ==
    /\ pc[c] = "mnemonicToPrivateKey" /\ op[c] \in KeyPairAndSeqnoOps
    /\ keyPair' = [keyPair EXCEPT ![c] = Some(mnemonicToPrivateKey(mnemonic[c][1]))]
    /\ total' = [total EXCEPT ![c] = Some(args[c].amount + (args[c].feeExtra * (0 - 1)))]
    /\ Goto(c, "getWalletBalance", <<"mnemonicToPrivateKey">>)
    /\ UNCHANGED <<op, args, mnemonic, nftTransferAmount, wallet, seqno, cell, result,
                   broadcast, emulated, encIn, encOut>>

GetKeyPairAndSeqno_getWalletBalance(c) ==
    /\ pc[c] = "getWalletBalance" /\ op[c] \in KeyPairAndSeqnoOps
    /\ \/ /\ Throw(c, "AccountQueryFailed", <<"getWalletBalance">>)
          /\ UNCHANGED <<wallet, seqno>>
       \/ \E b \in Balances, sq \in Seqnos :
            /\ wallet' = [wallet EXCEPT ![c] = Some(b)]
            /\ seqno' = [seqno EXCEPT ![c] = Some(sq)]
            /\ IF checkWalletBalanceOrDie(total[c][1], b)
               THEN Throw(c, "InsufficientBalance",
                          <<"getWalletBalance", "checkWalletBalanceOrDie">>)
               ELSE /\ Goto(c, "getKeyPairAndSeqno",
                            <<"getWalletBalance", "checkWalletBalanceOrDie">>)
                    /\ UNCHANGED result
    /\ UNCHANGED <<op, args, mnemonic, keyPair, nftTransferAmount, total, cell,
                   broadcast, emulated, encIn, encOut>>

\* ------------------------------------------------------------ sendNftRenew

\* const body = nftRenewBody(); const cell = createTransferMessage(
\*     { seqno, state, secretKey: keyPair.secretKey }, { to, value: amount, body })
SendNftRenew_cell(c) ==
    createTransferMessage(
        [seqno |-> seqno[c][1], state |-> walletRawAddress,
         secretKey |-> keyPair[c][1].secretKey],
        [to |-> nftItemAddress, value |-> args[c].amount, body |-> nftRenewBody(None)])

\* getKeyPairAndSeqno has resolved: assemble and request the broadcast.
SendNftRenew_getKeyPairAndSeqno(c) ==
    /\ pc[c] = "getKeyPairAndSeqno" /\ op[c] = "sendNftRenew"
    /\ cell' = [cell EXCEPT ![c] = Some(SendNftRenew_cell(c))]
    /\ broadcast' = [broadcast EXCEPT ![c] = Append(@,
           [endpoint |-> "sendBoc", request |-> toBase64(SendNftRenew_cell(c))])]
    /\ Goto(c, "sendBoc", <<"nftRenewBody", "createTransferMessage", "sendBoc">>)
    /\ UNCHANGED <<op, args, mnemonic, keyPair, nftTransferAmount, total, wallet,
                   seqno, result, emulated, encIn, encOut>>

SendNftRenew_sendBoc(c) ==
    /\ pc[c] = "sendBoc" /\ op[c] = "sendNftRenew"
    /\ \/ /\ Goto(c, "done", <<>>)
          /\ result' = [result EXCEPT ![c] = Returned]
       \/ Throw(c, "RemoteRejection", <<>>)
    /\ UNCHANGED <<op, args, mnemonic, keyPair, nftTransferAmount, total, wallet,
                   seqno, cell, broadcast, emulated, encIn, encOut>>

\* -------------------------------------------------------- estimateNftRenew

\* Variant of EstimateNftRenew_getWalletBalance that submits the message to
\* sendBoc, unchecked, instead of returning it.
EstimateNftRenew_getWalletBalance_broadcasts(c) ==
    /\ pc[c] = "getWalletBalance" /\ op[c] = "estimateNftRenew"
    /\ \E b \in Balances, sq \in Seqnos :
         LET m == createTransferMessage(
                      [seqno |-> sq, state |-> walletRawAddress,
                       secretKey |-> BufferAlloc(64)],
                      [to |-> nftItemAddress, value |-> args[c].amount,
                       body |-> nftRenewBody(None)])
         IN /\ wallet' = [wallet EXCEPT ![c] = Some(b)]
            /\ seqno' = [seqno EXCEPT ![c] = Some(sq)]
            /\ cell' = [cell EXCEPT ![c] = Some(m)]
            /\ broadcast' = [broadcast EXCEPT ![c] = Append(@,
                   [endpoint |-> "sendBoc", request |-> toBase64(m)])]
            /\ Goto(c, "done", <<"getWalletBalance", "sendBoc">>)
            /\ result' = [result EXCEPT ![c] = Returned]
    /\ UNCHANGED <<op, args, mnemonic, keyPair, nftTransferAmount, total, emulated,
                   encIn, encOut>>

\* const [wallet, seqno] = await getWalletBalance(...), then the positive
\* balance check, the assembly with Buffer.alloc(64), and the return of the
\* base64 text.
EstimateNftRenew_getWalletBalance(c) ==
    /\ pc[c] = "getWalletBalance" /\ op[c] = "estimateNftRenew"
    /\ \/ /\ Throw(c, "AccountQueryFailed", <<"getWalletBalance">>)
          /\ UNCHANGED <<wallet, seqno, cell>>
       \/ \E b \in Balances, sq \in Seqnos :
            /\ wallet' = [wallet EXCEPT ![c] = Some(b)]
            /\ seqno' = [seqno EXCEPT ![c] = Some(sq)]
            /\ IF checkWalletPositiveBalanceOrDie(b)
               THEN /\ Throw(c, "EmptyBalance",
                             <<"getWalletBalance", "checkWalletPositiveBalanceOrDie">>)
                    /\ UNCHANGED cell
               ELSE LET m == createTransferMessage(
                                 [seqno |-> sq, state |-> walletRawAddress,
                                  secretKey |-> BufferAlloc(64)],
                                 [to |-> nftItemAddress, value |-> args[c].amount,
                                  body |-> nftRenewBody(None)])
                    IN /\ cell' = [cell EXCEPT ![c] = Some(m)]
                       /\ Goto(c, "done",
                               <<"getWalletBalance", "checkWalletPositiveBalanceOrDie",
                                 "nftRenewBody", "createTransferMessage">>)
                       /\ result' = [result EXCEPT ![c] =
                                        [Returned EXCEPT !.boc = Some(toBase64(m))]]
    /\ UNCHANGED <<op, args, mnemonic, keyPair, nftTransferAmount, total, broadcast,
                   emulated, encIn, encOut>>

\* ------------------------------------------------------------- sendNftLink

\* const body = nftLinkBody(options): options carries linkToAddress and no queryId.
LinkBodyOf(c) == nftLinkBody([queryId |-> None, linkToAddress |-> args[c].linkToAddress])

\* getKeyPairAndSeqno has resolved: encode the record (which throws on a
\* malformed target), assemble with keyPair.secretKey, request the broadcast.
SendNftLink_getKeyPairAndSeqno(c) ==
    /\ pc[c] = "getKeyPairAndSeqno" /\ op[c] = "sendNftLink"
    /\ IF LinkBodyOf(c) = None
       THEN /\ Throw(c, "FormatError", <<"nftLinkBody">>)
            /\ UNCHANGED <<cell, broadcast>>
       ELSE LET m == createTransferMessage(
                         [seqno |-> seqno[c][1], state |-> walletRawAddress,
                          secretKey |-> keyPair[c][1].secretKey],
                         [to |-> nftItemAddress, value |-> args[c].amount,
                          body |-> LinkBodyOf(c)[1]])
            IN /\ cell' = [cell EXCEPT ![c] = Some(m)]
               /\ broadcast' = [broadcast EXCEPT ![c] = Append(@,
                      [endpoint |-> "sendBoc", request |-> toBase64(m)])]
               /\ Goto(c, "sendBoc", <<"nftLinkBody", "createTransferMessage", "sendBoc">>)
               /\ UNCHANGED result
    /\ UNCHANGED <<op, args, mnemonic, keyPair, nftTransferAmount, total, wallet,
                   seqno, emulated, encIn, encOut>>

SendNftLink_sendBoc(c) ==
    /\ pc[c] = "sendBoc" /\ op[c] = "sendNftLink"
    /\ \/ /\ Goto(c, "done", <<>>)
          /\ result' = [result EXCEPT ![c] = Returned]
       \/ Throw(c, "RemoteRejection", <<>>)
    /\ UNCHANGED <<op, args, mnemonic, keyPair, nftTransferAmount, total, wallet,
                   seqno, cell, broadcast, emulated, encIn, encOut>>

\* --------------------------------------------------------- estimateNftLink

EstimateNftLink_getWalletBalance(c) ==
    /\ pc[c] = "getWalletBalance" /\ op[c] = "estimateNftLink"
    /\ \/ /\ Throw(c, "AccountQueryFailed", <<"getWalletBalance">>)
          /\ UNCHANGED <<wallet, seqno, cell>>
       \/ \E b \in Balances, sq \in Seqnos :
            /\ wallet' = [wallet EXCEPT ![c] = Some(b)]
            /\ seqno' = [seqno EXCEPT ![c] = Some(sq)]
            /\ IF checkWalletPositiveBalanceOrDie(b)
               THEN /\ Throw(c, "EmptyBalance",
                             <<"getWalletBalance", "checkWalletPositiveBalanceOrDie">>)
                    /\ UNCHANGED cell
               ELSE IF LinkBodyOf(c) = None
               THEN /\ Throw(c, "FormatError",
                             <<"getWalletBalance", "checkWalletPositiveBalanceOrDie",
                               "nftLinkBody">>)
                    /\ UNCHANGED cell
               ELSE LET m == createTransferMessage(
                                 [seqno |-> sq, state |-> walletRawAddress,
                                  secretKey |-> BufferAlloc(64)],
                                 [to |-> nftItemAddress, value |-> args[c].amount,
                                  body |-> LinkBodyOf(c)[1]])
                    IN /\ cell' = [cell EXCEPT ![c] = Some(m)]
                       /\ Goto(c, "done",
                               <<"getWalletBalance", "checkWalletPositiveBalanceOrDie",
                                 "nftLinkBody", "createTransferMessage">>)
                       /\ result' = [result EXCEPT ![c] =
                                        [Returned EXCEPT !.boc = Some(toBase64(m))]]
    /\ UNCHANGED <<op, args, mnemonic, keyPair, nftTransferAmount, total, broadcast,
                   emulated, encIn, encOut>>

\* ---------------------------------------------------------- specification

Next ==
    \E c \in Calls :
       \/ Invoke(c)
       \/ CheckServiceTimeOrDie(c)
       \/ SendNftTransfer_getWalletMnemonic(c)
       \/ SendNftTransfer_mnemonicToPrivateKey(c)
       \/ SendNftTransfer_getWalletBalance(c)
       \/ SendNftTransfer_sendBlockchainMessage(c)
       \/ EstimateNftTransfer_getWalletBalance(c)
       \/ EstimateNftTransfer_emulateMessageToWallet(c)
       \/ GetKeyPairAndSeqno_getWalletMnemonic(c)
       \/ GetKeyPairAndSeqno_mnemonicToPrivateKey(c)
       \/ GetKeyPairAndSeqno_getWalletBalance(c)
       \/ SendNftRenew_getKeyPairAndSeqno(c)
       \/ SendNftRenew_sendBoc(c)
       \/ EstimateNftRenew_getWalletBalance(c)
       \/ SendNftLink_getKeyPairAndSeqno(c)
       \/ SendNftLink_sendBoc(c)
       \/ EstimateNftLink_getWalletBalance(c)

Spec == Init /\ [][Next]_vars

\* ------------------------------------------------- the encoders on their own

QueryIds == {None} \cup {Some(q) : q \in 0..MaxQueryId}
Payloads == {None, Some(comment(giftText))}

\* The encoder applications SpecEnc starts from.
EncInputs ==
    {[NoEnc EXCEPT !.fn = "nftTransferBody", !.queryId = q, !.forwardPayload = fp,
                   !.linkToAddress = a] :
        q \in QueryIds, fp \in Payloads, a \in {recipientRawAddress, linkTarget, nftItemAddress}}
    \cup {[NoEnc EXCEPT !.fn = "nftRenewBody", !.queryId = q] : q \in QueryIds}
    \cup {[NoEnc EXCEPT !.fn = "nftRenewBody()"]}
    \cup {[NoEnc EXCEPT !.fn = "nftLinkBody", !.queryId = q, !.linkToAddress = a] :
        q \in QueryIds, a \in {"", linkTarget, recipientRawAddress, malformedAddress}}
    \cup {[NoEnc EXCEPT !.fn = "createNftTransfer", !.now = t, !.forwardPayload = fp,
                   !.linkToAddress = a] :
        t \in Times, fp \in Payloads, a \in {recipientRawAddress, linkTarget, nftItemAddress}}

InitEnc ==
    /\ op = [c \in Calls |-> ""]
    /\ pc = [c \in Calls |-> "idle"]
    /\ args = [c \in Calls |-> NoArgs]
    /\ mnemonic = [c \in Calls |-> None]
    /\ keyPair = [c \in Calls |-> None]
    /\ nftTransferAmount = [c \in Calls |-> None]
    /\ total = [c \in Calls |-> None]
    /\ wallet = [c \in Calls |-> None]
    /\ seqno = [c \in Calls |-> None]
    /\ cell = [c \in Calls |-> None]
    /\ result = [c \in Calls |-> Pending]
    /\ trace = [c \in Calls |-> <<>>]
    /\ broadcast = [c \in Calls |-> <<>>]
    /\ emulated = [c \in Calls |-> <<>>]
    /\ encIn \in EncInputs
    /\ encOut = None

\* The encoder produced cell c / threw.
Produced(c) == Some([threw |-> FALSE, cell |-> Some(c)])
Threw == Some([threw |-> TRUE, cell |-> None])

Enc_nftTransferBody ==
    /\ encIn.fn = "nftTransferBody" /\ encOut = None
    /\ encOut' = Produced(nftTransferBody(
           [queryId |-> encIn.queryId,
            newOwnerAddress |-> AddressParse(encIn.linkToAddress)[1],
            responseAddress |-> AddressParse(walletRawAddress)[1],
            forwardAmount |-> nftTransferForwardAmount,
            forwardPayload |-> encIn.forwardPayload]))
    /\ UNCHANGED <<callVars, encIn>>

Enc_nftRenewBody ==
    /\ encIn.fn \in {"nftRenewBody", "nftRenewBody()"} /\ encOut = None
    /\ encOut' = Produced(nftRenewBody(
           IF encIn.fn = "nftRenewBody()" THEN None
           ELSE Some([queryId |-> encIn.queryId])))
    /\ UNCHANGED <<callVars, encIn>>

Enc_nftLinkBody ==
    /\ encIn.fn = "nftLinkBody" /\ encOut = None
    /\ LET body == nftLinkBody([queryId |-> encIn.queryId,
                                linkToAddress |-> encIn.linkToAddress])
       IN encOut' = IF body = None THEN Threw ELSE Produced(body[1])
    /\ UNCHANGED <<callVars, encIn>>

\* createNftTransfer with the default key; the body of its message is kept.
Enc_createNftTransfer ==
    /\ encIn.fn = "createNftTransfer" /\ encOut = None
    /\ encOut' = Produced(createNftTransfer(0, encIn.linkToAddress, nftItemAddress,
                     initNftTransferAmount, encIn.forwardPayload, BufferAlloc(64),
                     encIn.now).body)
    /\ UNCHANGED <<callVars, encIn>>

NextEnc ==
    \/ Enc_nftTransferBody
    \/ Enc_nftRenewBody
    \/ Enc_nftLinkBody
    \/ Enc_createNftTransfer

SpecEnc == InitEnc /\ [][NextEnc]_vars

\* What the encoder was asked: no query id, or a non-zero one.
QueryIdOmitted == encIn.fn = "nftRenewBody()" \/ encIn.queryId = None
QueryIdSupplied == encIn.fn # "nftRenewBody()" /\ encIn.queryId # None
                   /\ encIn.queryId # Some(0)
\* The encoder has produced a cell, whose second field is the 64-bit query id.
EncCell == encOut[1].cell[1]
HasEncCell == encOut # None /\ encOut[1].cell # None
QueryIdField == EncCell.bits[2]

\* C8 (as stated): with the query id omitted the renew and link encoders write
\* 0 and nftTransferBody writes a value derived from the current time; a
\* non-zero query id that is supplied is written as it is.
C8_AsStated ==
    HasEncCell =>
       /\ (encIn.fn \in {"nftRenewBody", "nftRenewBody()", "nftLinkBody"} /\ QueryIdOmitted
             => QueryIdField = [w |-> 64, v |-> <<0>>])
       /\ (encIn.fn = "nftTransferBody" /\ QueryIdOmitted
             => QueryIdField.w = 64 /\ QueryIdField.v[1] \in Times)
       /\ (encIn.fn # "createNftTransfer" /\ QueryIdSupplied
             => QueryIdField = [w |-> 64, v |-> <<encIn.queryId[1]>>])

\* C8 (amended): with the query id omitted all three encoders, nftTransferBody
\* included, write 0 in the 64-bit query id field; the time-derived query id
\* of a transfer is the Date.now() that createNftTransfer always passes to
\* nftTransferBody; a non-zero query id that is supplied is written as it is.
C8_QueryIdDefault ==
    HasEncCell =>
       /\ (encIn.fn \in {"nftRenewBody", "nftRenewBody()", "nftLinkBody",
                         "nftTransferBody"} /\ QueryIdOmitted
             => QueryIdField = [w |-> 64, v |-> <<0>>])
       /\ (encIn.fn = "createNftTransfer"
             => QueryIdField = [w |-> 64, v |-> <<encIn.now>>])
       /\ (encIn.fn # "createNftTransfer" /\ QueryIdSupplied
             => QueryIdField = [w |-> 64, v |-> <<encIn.queryId[1]>>])

\* nftTransferBody was applied without a query id and wrote 0.
C8_Witness ==
    /\ HasEncCell
    /\ encIn.fn = "nftTransferBody" /\ encIn.queryId = None
    /\ QueryIdField.v = <<0>>

\* C9: nftLinkBody gives a cell with no ref for an empty linkToAddress and
\* with exactly one ref for a non-empty one that parses, the ref holding the
\* 16-bit marker 0x9fd3, the parsed address and an 8-bit zero; the main cell
\* holds the 32-bit tag 0x4eb1f0f9, the 64-bit query id and the 256-bit
\* wallet category. A non-empty linkToAddress that does not parse gives no cell.
C9_LinkBodyShape ==
    encOut # None /\ encIn.fn = "nftLinkBody" =>
       /\ (encIn.linkToAddress = "" => HasEncCell /\ Len(EncCell.refs) = 0)
       /\ (encIn.linkToAddress # "" /\ AddressParse(encIn.linkToAddress) # None =>
             /\ HasEncCell
             /\ Len(EncCell.refs) = 1
             /\ EncCell.refs[1].refs = <<>>
             /\ EncCell.refs[1].bits =
                  <<[w |-> 16, v |-> <<40915>>],
                    [w |-> 267, v |-> <<AddressParse(encIn.linkToAddress)[1].workChain,
                                        AddressParse(encIn.linkToAddress)[1].hash>>],
                    [w |-> 8, v |-> <<0>>]>>)
       /\ (encIn.linkToAddress # "" /\ AddressParse(encIn.linkToAddress) = None =>
             encOut[1].threw)
       /\ (HasEncCell =>
             EncCell.bits =
                <<[w |-> 32, v |-> <<1320284409>>],
                  [w |-> 64, v |-> <<IF encIn.queryId = None THEN 0 ELSE encIn.queryId[1]>>],
                  [w |-> 256, v |-> <<59604, 16464, 34621, 47750, 23207, 49520, 43852,
                                      52836, 55560, 14755, 19919, 54991, 29137, 19970,
                                      1348, 15131>>]>>)

\* nftLinkBody was applied to a non-empty address that parses and gave one ref.
C9_Witness ==
    /\ HasEncCell /\ encIn.fn = "nftLinkBody"
    /\ encIn.linkToAddress = linkTarget
    /\ Len(EncCell.refs) = 1

\* ----------------------------------------------------- claims on the calls

\* Every message a call handed to an endpoint or returned, with where it went.
Broadcasts(c) == {broadcast[c][i].request.boc : i \in 1..Len(broadcast[c])}
Emulations(c) == {emulated[c][i].request.boc : i \in 1..Len(emulated[c])}
ReturnedBocs(c) == {result[c].boc[i].boc : i \in 1..Len(result[c].boc)}
Assembled(c) == {cell[c][i] : i \in 1..Len(cell[c])}
Steps(c) == {trace[c][i] : i \in 1..Len(trace[c])}

ZeroKey64 == [i \in 1..64 |-> 0]

IsPrefix(s, t) == Len(s) <= Len(t) /\ \A i \in 1..Len(s) : s[i] = t[i]

\* C1: every message a send entry point submits to a broadcast endpoint was
\* assembled with the secret key derived from the mnemonic that call
\* retrieved; a message assembled with the zero-filled 64-byte key is only
\* returned or passed to the emulation endpoint, never broadcast.
C1_BroadcastOnlyRealKey ==
    \A c \in Calls :
       /\ \A m \in Broadcasts(c) :
             /\ op[c] \in SendOps
             /\ mnemonic[c] = Some(storedMnemonic)
             /\ m.secretKey = [i \in 1..64 |-> mnemonic[c][1]]
             /\ m.secretKey # ZeroKey64
       /\ \A m \in Assembled(c) :
             m.secretKey = ZeroKey64 =>
                /\ m \notin Broadcasts(c)
                /\ op[c] \in EstimateOps

\* One call has broadcast an NFT transfer and another has sent a zero-key
\* message to the emulation endpoint.
C1_Witness ==
    \E c, d \in Calls :
       /\ op[c] = "sendNftTransfer" /\ Len(broadcast[c]) = 1
       /\ broadcast[c][1].endpoint = "sendBlockchainMessage"
       /\ op[d] = "estimateNftTransfer" /\ Len(emulated[d]) = 1
       /\ emulated[d][1].request.boc.secretKey = ZeroKey64

\* C2: an estimate entry point, whether it succeeds or fails, never calls
\* getWalletMnemonic or mnemonicToPrivateKey and never calls a broadcast
\* endpoint; the message it assembles carries the zero-filled key.
C2_EstimateTouchesNoSecret ==
    \A c \in Calls :
       op[c] \in EstimateOps =>
          /\ mnemonic[c] = None /\ keyPair[c] = None
          /\ Steps(c) \cap {"getWalletMnemonic", "mnemonicToPrivateKey", "sendBoc",
                            "sendBlockchainMessage"} = {}
          /\ broadcast[c] = <<>>
          /\ \A m \in Assembled(c) \cup Emulations(c) \cup ReturnedBocs(c) :
                m.secretKey = ZeroKey64

\* One estimate has returned its message and another has failed.
C2_Witness ==
    \E c, d \in Calls :
       /\ op[c] = "estimateNftRenew" /\ result[c].kind = "returned"
       /\ ReturnedBocs(c) # {}
       /\ op[d] \in EstimateOps /\ result[d].kind = "thrown"

\* The steps of sendNftTransfer, in the order of the source.
TransferSteps ==
    <<"checkServiceTimeOrDie", "getWalletMnemonic", "mnemonicToPrivateKey",
      "nftTransferAmount", "getWalletBalance", "checkWalletBalanceOrDie",
      "createNftTransfer", "sendBlockchainMessage">>

\* The step at which each failure before the broadcast is raised.
FailingStep(e) ==
    CASE e = "ServiceUnavailable" -> "checkServiceTimeOrDie"
      [] e = "WrongPassword" -> "getWalletMnemonic"
      [] e = "InvalidAmount" -> "nftTransferAmount"
      [] e = "AccountQueryFailed" -> "getWalletBalance"
      [] e = "InsufficientBalance" -> "checkWalletBalanceOrDie"
      [] OTHER -> ""

\* C3: sendNftTransfer broadcasts at most once, and only after the service
\* time check, the secret retrieval and key derivation, the account fetch and
\* the sufficiency check, in this order, all succeeded; a failure at any of
\* them ends the call there: no later step, no retry, no broadcast.
C3_SendOrder ==
    \A c \in Calls :
       op[c] = "sendNftTransfer" =>
          /\ Len(broadcast[c]) <= 1
          /\ IsPrefix(trace[c], TransferSteps)
          /\ (broadcast[c] # <<>> =>
                /\ trace[c] = TransferSteps
                /\ mnemonic[c] # None /\ keyPair[c] # None
                /\ wallet[c] # None /\ seqno[c] # None
                /\ ~(total[c][1] > wallet[c][1]))
          /\ (result[c].kind = "thrown" /\ result[c].error # "RemoteRejection" =>
                /\ broadcast[c] = <<>>
                /\ pc[c] = "done"
                /\ trace[c] # <<>>
                /\ Last(trace[c]) = FailingStep(result[c].error))

\* One sendNftTransfer has broadcast and returned, another has failed the
\* sufficiency check.
C3_Witness ==
    \E c, d \in Calls :
       /\ op[c] = "sendNftTransfer" /\ result[c].kind = "returned"
       /\ Len(broadcast[c]) = 1
       /\ op[d] = "sendNftTransfer" /\ result[d].error = "InsufficientBalance"

\* C4 (as stated): the transfer value is max(min, min - feeExtra) and the
\* total compared against the balance is that value plus feeExtra.
C4_AsStated ==
    \A c \in Calls :
       op[c] = "sendNftTransfer" /\ nftTransferAmount[c] # None =>
          /\ nftTransferAmount[c][1] =
                (IF min - args[c].feeExtra > min THEN min - args[c].feeExtra ELSE min)
          /\ total[c][1] = nftTransferAmount[c][1] + args[c].feeExtra

\* C4 (amended): the transfer value is max(min, min - feeExtra) and the total
\* compared against the balance is that value minus feeExtra (the fee being
\* feeExtra * -1): the sufficiency check fails exactly when value - feeExtra
\* exceeds the balance; min = 5 and feeExtra = -2 give the value 7 and the
\* compared total 9.
C4_Netting ==
    /\ NftTransferAmount(5, 0 - 2) = 7
    /\ Total(NftTransferAmount(5, 0 - 2), 0 - 2) = 9
    /\ \A c \in Calls :
          op[c] = "sendNftTransfer" /\ nftTransferAmount[c] # None =>
             /\ nftTransferAmount[c][1] =
                   (IF min - args[c].feeExtra > min THEN min - args[c].feeExtra ELSE min)
             /\ total[c][1] = nftTransferAmount[c][1] - args[c].feeExtra
             /\ (wallet[c] # None =>
                   (result[c].error = "InsufficientBalance"
                      <=> nftTransferAmount[c][1] - args[c].feeExtra > wallet[c][1]))

\* sendNftTransfer has netted a negative feeExtra (value above min, total above
\* the value) and, in another call, a positive one (value clamped to min), and
\* both have been compared with a fetched balance.
C4_Witness ==
    \E c, d \in Calls :
       /\ op[c] = "sendNftTransfer" /\ args[c].feeExtra < 0 /\ wallet[c] # None
       /\ nftTransferAmount[c][1] > min /\ total[c][1] > nftTransferAmount[c][1]
       /\ op[d] = "sendNftTransfer" /\ args[d].feeExtra > 0 /\ wallet[d] # None
       /\ nftTransferAmount[d] = Some(min)

\* C5: sendNftTransfer fails with InsufficientBalance whenever its total (the
\* transfer amount plus the fee, the fee being feeExtra * -1) exceeds the
\* balance the same call fetched, and then no message is assembled with the
\* real key and nothing is broadcast.
C5_InsufficientBalance ==
    \A c \in Calls :
       /\ op[c] = "sendNftTransfer" /\ wallet[c] # None
       /\ nftTransferAmount[c][1] + (0 - args[c].feeExtra) > wallet[c][1]
       => /\ result[c] = Thrown("InsufficientBalance")
          /\ cell[c] = None
          /\ broadcast[c] = <<>>

\* The example: feeExtra = 0, so total = min, against a balance below it.
C5_Witness ==
    \E c \in Calls :
       /\ op[c] = "sendNftTransfer" /\ args[c].feeExtra = 0
       /\ wallet[c] = Some(1) /\ total[c] = Some(min)
       /\ result[c].error = "InsufficientBalance"

\* C6: an estimate entry point applies only the positive-balance check: with
\* a fetched balance <= 0 it fails with EmptyBalance and assembles, returns
\* and emulates nothing; with a balance >= 1 the check passes whatever the
\* amount, also when the amount exceeds the balance.
C6_PositiveBalanceOnly ==
    \A c \in Calls :
       op[c] \in EstimateOps /\ wallet[c] # None =>
          /\ (wallet[c][1] <= 0 =>
                /\ result[c] = Thrown("EmptyBalance")
                /\ cell[c] = None /\ emulated[c] = <<>>)
          /\ (wallet[c][1] >= 1 =>
                /\ result[c].error \notin {"EmptyBalance", "InsufficientBalance"}
                /\ "checkWalletBalanceOrDie" \notin Steps(c)
                /\ (result[c].error # "FormatError" => cell[c] # None))

\* Estimates whose amount exceeds the balance of 1 went through: one emulated,
\* one returned its message.
C6_Witness ==
    \E c, d \in Calls :
       /\ op[c] = "estimateNftTransfer" /\ wallet[c] = Some(1)
       /\ Len(emulated[c]) = 1 /\ emulated[c][1].request.boc.value > 1
       /\ op[d] = "estimateNftRenew" /\ wallet[d] = Some(1)
       /\ args[d].amount > 1 /\ result[d].kind = "returned"

C10_OwnSeqno ==
    \A c \in Calls :
       \A m \in Assembled(c) \cup Broadcasts(c) \cup Emulations(c) \cup ReturnedBocs(c) :
          /\ seqno[c] # None
          /\ m.seqno = seqno[c][1]

\* Nothing prevents it: two concurrent sends have both broadcast messages
\* built with the same seqno, while the first was still awaiting its answer.
C10_Witness ==
    \E c, d \in Calls :
       /\ c # d
       /\ op[c] = "sendNftTransfer" /\ op[d] = "sendNftTransfer"
       /\ pc[c] = "sendBlockchainMessage" /\ pc[d] = "sendBlockchainMessage"
       /\ Len(broadcast[c]) = 1 /\ Len(broadcast[d]) = 1
       /\ broadcast[c][1].request.boc.seqno = broadcast[d][1].request.boc.seqno

====
